---- MODULE Spec2Model ----
(***************************************************************************)
(* Session registry (utils/sessionManager.js) and the bulk dispatch        *)
(* endpoint (index.js, POST /send-messages) of the WhatsApp automation     *)
(* server, as a state machine.                                             *)
(*                                                                         *)
(* Node runs one handler at a time: an action is the code between two      *)
(* suspension points where the handler waits for the external client       *)
(* (logout, destroy, initialize, getNumberId, sendMessage) or for a timer. *)
(* An await on an async function that finished without waiting resumes in  *)
(* the same micro-task drain, so it is part of the same action.            *)
(***************************************************************************)
EXTENDS Integers, Sequences, FiniteSets, TLC

\* ---------------------------------------------------------------- bounds
UserIds == {"u1", "u2"}
\* client handles that may be constructed in one run
MaxClients == 2
\* Date.now() ranges over 0..MaxTime; one clock step is longer than TimeoutEnv
\* idle timeouts and shorter than TimeoutEnv + 1
MaxTime == 1
\* longest recipient list of a send-messages request
MaxRecipients == 2
\* dispatch jobs that may be in flight at once
MaxJobs == 2
\* activations that may be suspended at once (waiting for the client or a timer)
MaxPending == 2
\* MAX_SESSIONS, scaled down (50 in config.js, 3 in config-render-free.js)
MaxSessionsEnv == 1
\* SESSION_TIMEOUT_MINUTES of the render configurations, in clock steps
TimeoutEnv == 0
\* a raw recipient is up to MaxHead characters followed by up to MaxFill digits
MaxHead == 3
MaxFill == 8

\* ---------------------------------------------------------------- values
NoClient == 0
NoTime == -1
Null == "null"
NoStatus == "undefined"
NoQr == "undefined"
LiveStatuses == {"ready", "initializing", "needs_scan", "authenticated"}
Statuses == LiveStatuses \cup {"auth_failure", "disconnected"}
Events == {"qr", "ready", "authenticated", "auth_failure", "disconnected"}

\* config.sessions of config.js: there is no timeoutMinutes field
ConfigJs == [maxSessions |-> MaxSessionsEnv]
\* config.sessions of config-render-free.js / config-render-pro.js
ConfigRender == [maxSessions |-> MaxSessionsEnv, timeoutMinutes |-> TimeoutEnv]

\* a JavaScript number that may be NaN
JsNum(v) == [nan |-> FALSE, val |-> v]
JsNaN == [nan |-> TRUE, val |-> 0]
\* x > y for an integer x and a JavaScript number y: false when y is NaN
JsGreater(x, y) == (~y.nan) /\ x > y.val

VARIABLES
    config,         \* config.sessions as loaded
    now,            \* Date.now()
    sessions,       \* Map userId -> client handle
    qrCodes,        \* Map userId -> qr | null
    sessionStatus,  \* Map userId -> status
    lastActivity,   \* Map userId -> time, in insertion order
    sessionLocks,   \* Map userId -> acquisition time
    clients,        \* the handles constructed so far: user id and live, closing, destroyed
    destroys,       \* destroySession activations waiting for logout()/destroy()
    inits,          \* createSession activations waiting for initialize()
    sweep,          \* cleanupInactiveSessions: sessionsToRemove still to visit
    jobs,           \* dispatch jobs in flight
    norm            \* a raw recipient and what the normalization makes of it

regvars == <<sessions, qrCodes, sessionStatus, lastActivity, sessionLocks>>
vars == <<config, now, sessions, qrCodes, sessionStatus, lastActivity,
          sessionLocks, clients, destroys, inits, sweep, jobs, norm>>

\* ------------------------------------------------- insertion-ordered Map
MapHas(m, k) == \E i \in DOMAIN m : m[i][1] = k
MapGet(m, k) == m[CHOOSE i \in DOMAIN m : m[i][1] = k][2]
MapSet(m, k, v) ==
    IF MapHas(m, k)
    THEN [i \in DOMAIN m |-> IF m[i][1] = k THEN <<k, v>> ELSE m[i]]
    ELSE Append(m, <<k, v>>)
MapDeleteTest(e, k) == e[1] # k
MapDelete(m, k) == SelectSeq(m, LAMBDA e : MapDeleteTest(e, k))
MapKeys(m) == {m[i][1] : i \in DOMAIN m}

\* ------------------------------------------------------------- registry
Size(s) == Cardinality({u \in UserIds : s[u] # NoClient})

\* a result or response; for the acknowledgment of /send-messages also the
\* total it carries and the dispatch calls made before it was sent
Reply(op, userId, code, status) ==
    [op |-> op, id |-> userId, code |-> code, status |-> status,
     total |-> 0, before |-> {}]
NoReply == Reply("none", "", "", "")
CloseOwner == [kind |-> "close", user |-> "", phase |-> ""]
EventOwner == [kind |-> "event", user |-> "", phase |-> ""]
SweepOwner == [kind |-> "sweep", user |-> "", phase |-> ""]
CreateOwner(userId, phase) == [kind |-> "create", user |-> userId, phase |-> phase]

\* a dispatch job: its position, the userId and client of the request, the
\* recipients, the loop index, whether there is something to send (content:
\* media is not null or currentMessage is not empty), and the counters
\* enviados, fallidos and the list failedNumbers (recipient index and reason)
IdleJob ==
    [pc |-> "idle", id |-> "", client |-> NoClient, numbers |-> <<>>, i |-> 0,
     content |-> TRUE, enviados |-> 0, fallidos |-> 0, failedNumbers |-> <<>>]

\* the state a handler works on, with the calls it makes (calls), the result
\* it returns or the response it sends (reply), and whether new Client(...)
\* succeeds when the handler gets there (ctor; LocalAuth throws on a clientId
\* with characters it does not allow)
Cur ==
    [sessions |-> sessions, qrCodes |-> qrCodes, sessionStatus |-> sessionStatus,
     lastActivity |-> lastActivity, sessionLocks |-> sessionLocks,
     clients |-> clients, destroys |-> destroys, inits |-> inits,
     sweep |-> sweep, jobs |-> jobs, calls |-> {}, reply |-> NoReply,
     ctor |-> TRUE]

Pending(M) ==
    Cardinality(M.destroys) + Cardinality(M.inits)
        + Cardinality({s \in DOMAIN M.jobs : M.jobs[s].pc # "idle"})

Commit(M) ==
    /\ Pending(M) <= MaxPending
    /\ Len(M.clients) <= MaxClients
    /\ sessions' = M.sessions
    /\ qrCodes' = M.qrCodes
    /\ sessionStatus' = M.sessionStatus
    /\ lastActivity' = M.lastActivity
    /\ sessionLocks' = M.sessionLocks
    /\ clients' = M.clients
    /\ destroys' = M.destroys
    /\ inits' = M.inits
    /\ sweep' = M.sweep
    /\ jobs' = M.jobs
    /\ UNCHANGED <<config, now, norm>>

getSessionStatus(M, userId) ==
    IF M.sessionStatus[userId] = NoStatus THEN "no_session" ELSE M.sessionStatus[userId]

updateActivity(M, userId) ==
    [M EXCEPT !.lastActivity = MapSet(@, userId, now)]

RECURSIVE OldestFrom(_, _, _, _)
OldestFrom(la, i, oldestUserId, oldestTime) ==
    IF i > Len(la) THEN oldestUserId
    ELSE IF la[i][2] < oldestTime
         THEN OldestFrom(la, i + 1, la[i][1], la[i][2])
         ELSE OldestFrom(la, i + 1, oldestUserId, oldestTime)

getOldestSession(M) == OldestFrom(M.lastActivity, 1, Null, now)

\* a faulty variant of the purge: the delete of the status is missing
PurgeKeepsStatus(M, userId) ==
    [M EXCEPT !.sessions[userId] = NoClient,
              !.qrCodes[userId] = NoQr,
              !.lastActivity = MapDelete(@, userId),
              !.sessionLocks[userId] = NoTime]

\* a faulty variant of the purge: the delete of the activity is missing
PurgeKeepsActivity(M, userId) ==
    [M EXCEPT !.sessions[userId] = NoClient,
              !.qrCodes[userId] = NoQr,
              !.sessionStatus[userId] = NoStatus,
              !.sessionLocks[userId] = NoTime]

\* a faulty variant of the purge: the lock table is cleared
PurgeClearsLocks(M, userId) ==
    [M EXCEPT !.sessions[userId] = NoClient,
              !.qrCodes[userId] = NoQr,
              !.sessionStatus[userId] = NoStatus,
              !.lastActivity = MapDelete(@, userId),
              !.sessionLocks = [u \in UserIds |-> NoTime]]

\* a faulty variant of the purge: the delete of the lock is missing
PurgeKeepsLock(M, userId) ==
    [M EXCEPT !.sessions[userId] = NoClient,
              !.qrCodes[userId] = NoQr,
              !.sessionStatus[userId] = NoStatus,
              !.lastActivity = MapDelete(@, userId)]

\* the five deletes of destroySession
PurgeRecords(M, userId) ==
    [M EXCEPT !.sessions[userId] = NoClient,
              !.qrCodes[userId] = NoQr,
              !.sessionStatus[userId] = NoStatus,
              !.lastActivity = MapDelete(@, userId),
              !.sessionLocks[userId] = NoTime]

\* client.logout() or client.destroy() is called on a handle
Closing(cl, client) ==
    [cl EXCEPT ![client].st = IF @ = "destroyed" THEN @ ELSE "closing"]

RECURSIVE destroySession(_, _, _), Continue(_, _), CreateCheck(_, _), SweepLoop(_)

\* createSession from "Crear nueva sesion" to the await on initialize(), or,
\* when new Client(...) throws, to the destroySession of the catch block
CreateNew(M, userId) ==
    LET client == Len(M.clients) + 1
        M1 == [M EXCEPT !.sessionStatus[userId] = "initializing",
                        !.qrCodes[userId] = Null,
                        !.lastActivity = MapSet(@, userId, now)]
    IN
    IF M.ctor
    THEN [M1 EXCEPT !.clients = Append(@, [id |-> userId, st |-> "live"]),
                    !.sessions[userId] = client,
                    !.inits = @ \cup {[id |-> userId, client |-> client]},
                    !.calls = @ \cup {<<"initialize", client>>}]
    ELSE destroySession(M1, userId, CreateOwner(userId, "fail"))

\* createSession: the check for an existing session
CreateCheck(M, userId) ==
    IF M.sessions[userId] # NoClient
    THEN IF M.sessionStatus[userId] \in LiveStatuses
         THEN [M EXCEPT !.reply = Reply("createSession", userId, "success",
                                        M.sessionStatus[userId])]
         ELSE destroySession(M, userId, CreateOwner(userId, "stale"))
    ELSE CreateNew(M, userId)

\* createSession from its first line
createSession(M, userId) ==
    IF Size(M.sessions) >= config.maxSessions
    THEN LET oldestSession == getOldestSession(M) IN
         IF oldestSession # Null
         THEN destroySession(M, oldestSession, CreateOwner(userId, "evict"))
         ELSE CreateCheck(M, userId)
    ELSE CreateCheck(M, userId)

\* destroySession up to its first await; without a client it runs to its end
destroySession(M, userId, owner) ==
    LET client == M.sessions[userId]
        M1 == [M EXCEPT !.calls = @ \cup {<<"destroySession", userId, owner.kind>>}]
    IN
    IF client # NoClient
    THEN IF M.sessionStatus[userId] \in {"ready", "authenticated"}
         THEN [M1 EXCEPT !.destroys = @ \cup {[id |-> userId, client |-> client,
                                              pc |-> "logout", owner |-> owner]},
                         !.clients = Closing(@, client),
                         !.calls = @ \cup {<<"logout", client>>}]
         ELSE [M1 EXCEPT !.destroys = @ \cup {[id |-> userId, client |-> client,
                                              pc |-> "destroy", owner |-> owner]},
                         !.clients = Closing(@, client),
                         !.calls = @ \cup {<<"destroy", client>>}]
    ELSE Continue(PurgeRecords(M1, userId), owner)

\* destroySession after client.destroy() returned or threw: the purge
destroyCompletes(M, d) ==
    PurgeRecords([M EXCEPT !.destroys = @ \ {d},
                           !.clients[d.client].st = "destroyed"], d.id)

\* the catch blocks around client.logout() and client.destroy(): an error is
\* logged and destroySession goes on
TeardownError(M, ok, what) ==
    IF ok THEN M ELSE [M EXCEPT !.calls = @ \cup {<<"logger", what>>}]

\* a faulty variant of LogoutResult: an error of logout() leaves destroySession
LogoutErrorEscapes(M, d, ok) ==
    IF ok
    THEN [M EXCEPT !.destroys = (@ \ {d}) \cup {[d EXCEPT !.pc = "destroy"]},
                   !.calls = @ \cup {<<"destroy", d.client>>}]
    ELSE [M EXCEPT !.destroys = @ \ {d}]

\* destroySession after client.logout() returned (ok) or threw: on to
\* client.destroy()
LogoutResult(M, d, ok) ==
    TeardownError([M EXCEPT !.destroys = (@ \ {d}) \cup {[d EXCEPT !.pc = "destroy"]},
                            !.calls = @ \cup {<<"destroy", d.client>>}],
                  ok, "logout")

\* a faulty variant of DestroyResult: an error of destroy() leaves
\* destroySession and the loop of the sweep that called it
DestroyErrorEndsSweep(M, d, ok) ==
    IF ok THEN destroyCompletes(M, d)
    ELSE [M EXCEPT !.destroys = @ \ {d}, !.sweep = <<>>]

\* destroySession after client.destroy() returned (ok) or threw, to its end
DestroyResult(M, d, ok) == TeardownError(destroyCompletes(M, d), ok, "destroy")

\* cleanupInactiveSessions: the loop over sessionsToRemove
SweepLoop(M) ==
    IF M.sweep = <<>> THEN M
    ELSE destroySession([M EXCEPT !.sweep = Tail(@)], Head(M.sweep), SweepOwner)

\* what the caller of destroySession does when it returns
Continue(M, owner) ==
    CASE owner.kind = "close" ->
            [M EXCEPT !.reply = Reply("close-session", "", "success", "no_session")]
      [] owner.kind = "event" -> M
      [] owner.kind = "sweep" -> SweepLoop(M)
      [] owner.kind = "create" /\ owner.phase = "evict" -> CreateCheck(M, owner.user)
      [] owner.kind = "create" /\ owner.phase = "stale" -> CreateNew(M, owner.user)
      [] owner.kind = "create" /\ owner.phase = "fail" ->
            [M EXCEPT !.reply = Reply("createSession", owner.user, "failure",
                                      "init_error")]

\* the handlers setupEventHandlers registers on a client of userId
setupEventHandlers(M, userId, ev) ==
    CASE ev = "qr" ->
            updateActivity([M EXCEPT !.qrCodes[userId] = "qr",
                                     !.sessionStatus[userId] = "needs_scan"], userId)
      [] ev = "ready" ->
            updateActivity([M EXCEPT !.sessionStatus[userId] = "ready",
                                     !.qrCodes[userId] = Null], userId)
      [] ev = "authenticated" ->
            updateActivity([M EXCEPT !.sessionStatus[userId] = "authenticated",
                                     !.qrCodes[userId] = Null], userId)
      [] ev = "auth_failure" ->
            destroySession([M EXCEPT !.sessionStatus[userId] = "auth_failure"],
                           userId, EventOwner)
      [] ev = "disconnected" ->
            destroySession([M EXCEPT !.sessionStatus[userId] = "disconnected"],
                           userId, EventOwner)

\* createSession resumes from await client.initialize(): it returned (ok) or
\* threw
InitializeResult(M, t, ok) ==
    LET M1 == [M EXCEPT !.inits = @ \ {t}] IN
    IF ok
    THEN [M1 EXCEPT !.reply = Reply("createSession", t.id, "success",
                                    getSessionStatus(M1, t.id))]
    ELSE destroySession(M1, t.id, CreateOwner(t.id, "fail"))

\* what await client.getState() gives: a state of the connection, or an error
ClientStates == {"CONNECTED", "PAIRING", "OPENING", "CONFLICT", "throw"}

\* GET /session-status/:userId
sessionStatusRoute(M, userId, state) ==
    LET status == M.sessionStatus[userId]
        answer(st) == [M EXCEPT !.reply = Reply("session-status", userId, "success", st)]
    IN
    IF M.sessions[userId] # NoClient
    THEN IF state = "throw"
         THEN answer(status)
         ELSE updateActivity(
                  answer(CASE state = "CONNECTED" -> "ready"
                           [] state = "PAIRING" -> "needs_scan"
                           [] state = "OPENING" -> status
                           [] OTHER -> "disconnected"), userId)
    ELSE answer(status)

\* GET /get-qr/:userId
getQrRoute(M, userId) ==
    LET qr == M.qrCodes[userId]
        status == getSessionStatus(M, userId)
        answer(code, st) == [M EXCEPT !.reply = Reply("get-qr", userId, code, st)]
    IN
    IF status = "ready" THEN answer("success", "ready")
    ELSE IF qr \notin {Null, NoQr} /\ status = "needs_scan"
    THEN answer("success", "needs_scan")
    ELSE IF status \in {"initializing", "authenticated"} THEN answer("202", status)
    ELSE answer("404", status)

\* ---------------------------------------------------------------- locks
\* a faulty variant of acquireLock: a refused call renews the token
AcquireRenews(locks, userId) ==
    [ret |-> locks[userId] = NoTime, locks |-> [locks EXCEPT ![userId] = now]]

\* a faulty variant of releaseLock: the delete is missing
ReleaseNothing(locks, userId) == locks

\* a faulty variant of acquireLock: the has() test is missing
AcquireAlways(locks, userId) ==
    [ret |-> TRUE, locks |-> [locks EXCEPT ![userId] = now]]

acquireLock(locks, userId) ==
    IF locks[userId] # NoTime
    THEN [ret |-> FALSE, locks |-> locks]
    ELSE [ret |-> TRUE, locks |-> [locks EXCEPT ![userId] = now]]

releaseLock(locks, userId) == [locks EXCEPT ![userId] = NoTime]

\* -------------------------------------------------------------- clean-up
timeoutMs ==
    IF "timeoutMinutes" \in DOMAIN config THEN JsNum(config.timeoutMinutes) ELSE JsNaN

IsInactive(e) == JsGreater(now - e[2], timeoutMs)

sessionsToRemove(la) ==
    LET idle == SelectSeq(la, IsInactive) IN [i \in DOMAIN idle |-> idle[i][1]]

cleanupInactiveSessions(M) ==
    SweepLoop([M EXCEPT !.sweep = sessionsToRemove(M.lastActivity),
                        !.calls = @ \cup {<<"cleanupInactiveSessions">>}])

\* ------------------------------------------------------ POST /send-messages
\* what JSON.parse(numbersJson) gives: a syntax error or a value that is no
\* array ("invalid"), or an array whose elements are strings ("str") or not ("num")
RecipientLists ==
    UNION {[1..n -> {"str", "num"}] : n \in 0..MaxRecipients}
\* the body of a request: the recipients, whether there is a message,
\* whether there is a media file, and whether the file can be read (load); no
\* per-recipient messages are sent along
Inputs ==
    [json : {"invalid"}, numbers : {<<>>}, message : BOOLEAN, media : BOOLEAN,
     load : {TRUE}]
    \cup [json : {"array"}, numbers : RecipientLists, message : BOOLEAN,
          media : BOOLEAN, load : {TRUE}]
\* the requests whose media file cannot be read
FailedMedia ==
    [json : {"array"}, numbers : RecipientLists, message : BOOLEAN,
     media : {TRUE}, load : {FALSE}]

FreeSlot(M) ==
    IF \E s \in 1..MaxJobs : M.jobs[s].pc = "idle"
    THEN CHOOSE s \in 1..MaxJobs :
            /\ M.jobs[s].pc = "idle"
            /\ \A r \in 1..(s - 1) : M.jobs[r].pc # "idle"
    ELSE 0

\* a faulty variant of the finally block: releaseLock is missing
FinishJobKeepsLock(M, s) == [M EXCEPT !.jobs[s] = IdleJob]

\* the finally block of the background job
FinishJob(M, s) ==
    [M EXCEPT !.sessionLocks = releaseLock(@, M.jobs[s].id),
              !.calls = @ \cup {<<"releaseLock", M.jobs[s].id>>},
              !.jobs[s] = IdleJob]

\* the loop body up to the await on getNumberId; replace() of a value that is
\* no string throws, which ends the loop in the outer catch
StartRecipient(M, s) ==
    LET j == M.jobs[s] IN
    IF j.numbers[j.i] = "num"
    THEN FinishJob(M, s)
    ELSE [M EXCEPT !.jobs[s].pc = "resolve",
                   !.calls = @ \cup {<<"getNumberId", j.client>>}]

\* a faulty variant of the loop: the delay between two recipients is missing
AfterRecipientNoDelay(M, s) ==
    LET j == M.jobs[s] IN
    IF j.i < Len(j.numbers)
    THEN StartRecipient([M EXCEPT !.jobs[s].i = @ + 1], s)
    ELSE FinishJob([M EXCEPT !.calls = @ \cup {<<"completed", j.id, j.enviados,
                                                 j.fallidos, Len(j.numbers),
                                                 j.failedNumbers>>}], s)

\* after the try/catch of one recipient: the delay (a setTimeout of sendDelay),
\* or the end of the loop with its "completed" log line
AfterRecipient(M, s) ==
    LET j == M.jobs[s] IN
    IF j.i < Len(j.numbers)
    THEN [M EXCEPT !.jobs[s].pc = "delay",
                   !.calls = @ \cup {<<"setTimeout", j.id>>}]
    ELSE FinishJob([M EXCEPT !.calls = @ \cup {<<"completed", j.id, j.enviados,
                                                 j.fallidos, Len(j.numbers),
                                                 j.failedNumbers>>}], s)

\* a faulty variant of the failure bookkeeping: the push is missing
CountFailedNoPush(M, s, reason) == [M EXCEPT !.jobs[s].fallidos = @ + 1]

\* enviados++
CountSent(M, s) == [M EXCEPT !.jobs[s].enviados = @ + 1]

\* failedNumbers.push({ number, reason }); fallidos++
CountFailed(M, s, reason) ==
    [M EXCEPT !.jobs[s].failedNumbers = Append(@, <<M.jobs[s].i, reason>>),
              !.jobs[s].fallidos = @ + 1]

\* the job resumes from await client.getNumberId(): an id ("wid"), null
\* ("none") or an exception ("throw")
ResolveResult(M, s, res) ==
    CASE res = "wid" ->
            IF M.jobs[s].content
            THEN [M EXCEPT !.jobs[s].pc = "send",
                           !.calls = @ \cup {<<"sendMessage", M.jobs[s].client>>}]
            ELSE AfterRecipient(CountSent(M, s), s)
      [] res = "none" -> AfterRecipient(CountFailed(M, s, "Not a valid WhatsApp number"), s)
      [] res = "throw" -> AfterRecipient(CountFailed(M, s, "err.message"), s)

\* the job resumes from await client.sendMessage(): it returned or threw
SendResult(M, s, ok) ==
    IF ok THEN AfterRecipient(CountSent(M, s), s)
    ELSE AfterRecipient(CountFailed(M, s, "err.message"), s)

\* a faulty variant of the loop: the same recipient is taken again
SameRecipient(M, s) == StartRecipient(M, s)

\* the job resumes from the delay: i++ and the next turn of the loop
NextRecipient(M, s) == StartRecipient([M EXCEPT !.jobs[s].i = @ + 1], s)

\* the getNumberId and sendMessage calls made so far in the step
DispatchCalls(M) == {c \in M.calls : c[1] \in {"getNumberId", "sendMessage"}}

\* a faulty variant of the precondition: the status is not looked at
SessionExists(M, userId) == M.sessions[userId] # NoClient

\* the precondition of /send-messages: a client and the status ready
SessionReady(M, userId) ==
    M.sessions[userId] # NoClient /\ getSessionStatus(M, userId) = "ready"

\* "Responder inmediatamente": res.json with the total
Acknowledge(M, userId, inp) ==
    [M EXCEPT !.reply = [Reply("send-messages", userId, "accepted", "")
                            EXCEPT !.total = Len(inp.numbers),
                                   !.before = DispatchCalls(M)]]

\* media is not null (the file was there and could be read), or
\* currentMessage, which is the message without per-recipient messages, is not
\* empty
HasContent(inp) == (inp.media /\ inp.load) \/ inp.message

\* the background job from its first line to its first await
StartJob(M, userId, inp) ==
    LET s == FreeSlot(M) IN
    StartRecipient(
        updateActivity(
            [M EXCEPT !.jobs[s] = [IdleJob EXCEPT !.pc = "start",
                                                  !.id = userId,
                                                  !.client = M.sessions[userId],
                                                  !.numbers = inp.numbers,
                                                  !.content = HasContent(inp),
                                                  !.i = 1]],
            userId),
        s)

\* a faulty variant of Dispatch: the response is sent from the job
DispatchAckLate(M, userId, inp) ==
    Acknowledge(StartJob(M, userId, inp), userId, inp)

\* an accepted request: the acknowledgment, then the background job
Dispatch(M, userId, inp) == StartJob(Acknowledge(M, userId, inp), userId, inp)

\* the body of the request passes validation
Accepted(M, userId, inp) ==
    /\ inp.json = "array"
    /\ inp.message \/ inp.media
    /\ Len(inp.numbers) > 0

\* the request handler, from its first line to the first await of the job
sendMessages(M, userId, inp) ==
    LET lock == acquireLock(M.sessionLocks, userId)
        locked == [M EXCEPT !.sessionLocks = lock.locks,
                            !.calls = @ \cup {<<"acquireLock", userId>>}]
        released == [locked EXCEPT !.sessionLocks = releaseLock(@, userId),
                                  !.calls = @ \cup {<<"releaseLock", userId>>}]
    IN
    IF ~SessionReady(M, userId)
    THEN [M EXCEPT !.reply = Reply("send-messages", userId, "not_ready",
                                   getSessionStatus(M, userId))]
    ELSE IF ~lock.ret
    THEN [locked EXCEPT !.reply = Reply("send-messages", userId, "busy", "")]
    ELSE IF inp.json # "array"
    THEN [released EXCEPT !.reply = Reply("send-messages", userId, "invalid_json", "")]
    ELSE IF ~inp.message /\ ~inp.media
    THEN [released EXCEPT !.reply = Reply("send-messages", userId, "no_content", "")]
    ELSE IF Len(inp.numbers) = 0
    THEN [released EXCEPT !.reply = Reply("send-messages", userId, "no_numbers", "")]
    ELSE Dispatch(locked, userId, inp)

\* ------------------------------------------------- recipient normalization
\* the characters of a raw recipient: digits, "+" and a separator
DigitChars == {"1", "5", "7", "9"}
HeadChars == {"+", "1", "5", "9", "-"}
IsDigit(ch) == ch \in DigitChars
\* s.replace(/\D/g, '')
Digits(s) == SelectSeq(s, IsDigit)
\* s.includes(ch)
Includes(s, ch) == \E i \in DOMAIN s : s[i] = ch
\* s.startsWith(p)
StartsWith(s, p) == Len(s) >= Len(p) /\ SubSeq(s, 1, Len(p)) = p
CountryPrefix == <<"5", "9", "1">>

\* a faulty variant of the normalization: only a leading "+" counts
normalizeLeadingPlus(originalNumber) ==
    LET numberOnly == Digits(originalNumber)
        plus == Len(originalNumber) > 0 /\ originalNumber[1] = "+"
    IN
    IF ~plus /\ Len(numberOnly) = 8 /\ ~StartsWith(numberOnly, CountryPrefix)
    THEN CountryPrefix \o numberOnly
    ELSE numberOnly

\* numberOnly of the loop body for one element of numbersRaw
normalizeNumber(originalNumber) ==
    LET numberOnly == Digits(originalNumber) IN
    IF ~Includes(originalNumber, "+") /\ Len(numberOnly) = 8
        /\ ~StartsWith(numberOnly, CountryPrefix)
    THEN CountryPrefix \o numberOnly
    ELSE IF Includes(originalNumber, "+")
    THEN Digits(originalNumber)
    ELSE numberOnly

RECURSIVE Fill(_)
Fill(n) == IF n = 0 THEN <<>> ELSE <<"7">> \o Fill(n - 1)
\* the raw recipients looked at: a head, digits, and possibly a trailing "+"
RawNumbers ==
    {h \o Fill(n) \o t :
        h \in UNION {[1..k -> HeadChars] : k \in 0..MaxHead},
        n \in 0..MaxFill, t \in {<<>>, <<"+">>}}
NoNumber == [originalNumber |-> <<>>, numberOnly |-> <<>>, done |-> FALSE]

\* ----------------------------------------------------------------- Init
InitWith(cfg) ==
    /\ config = cfg
    /\ now = 0
    /\ sessions = [u \in UserIds |-> NoClient]
    /\ qrCodes = [u \in UserIds |-> NoQr]
    /\ sessionStatus = [u \in UserIds |-> NoStatus]
    /\ lastActivity = <<>>
    /\ sessionLocks = [u \in UserIds |-> NoTime]
    /\ clients = <<>>
    /\ destroys = {}
    /\ inits = {}
    /\ sweep = <<>>
    /\ jobs = [s \in 1..MaxJobs |-> IdleJob]

\* the server as started: index.js and sessionManager.js require ./config
Init == InitWith(ConfigJs) /\ norm = NoNumber

\* the server started with a render configuration in place of config.js
InitRender == InitWith(ConfigRender) /\ norm = NoNumber

\* -------------------------------------------------------------- actions
Owners ==
    {CloseOwner, EventOwner, SweepOwner}
        \cup {CreateOwner(u, ph) : u \in UserIds, ph \in {"evict", "stale", "fail"}}
DestroyTasks ==
    [id : UserIds, client : 1..MaxClients, pc : {"logout", "destroy"}, owner : Owners]
InitTasks == [id : UserIds, client : 1..MaxClients]

CreateInFlight(userId) ==
    \/ \E d \in destroys : d.owner.kind = "create" /\ d.owner.user = userId
    \/ \E t \in inits : t.id = userId

\* POST /start-session
StartSession(userId, ctor) ==
    /\ ~CreateInFlight(userId)
    /\ Commit(createSession([Cur EXCEPT !.ctor = ctor], userId))

\* POST /close-session
CloseSession(userId) ==
    /\ ~\E d \in destroys : d.owner.kind = "close" /\ d.id = userId
    /\ Commit(destroySession(Cur, userId, CloseOwner))

\* a client that was constructed and whose destroy() has not returned emits ev
ClientEvent(client, ev) ==
    /\ client \in DOMAIN clients
    /\ clients[client].st \in {"live", "closing"}
    /\ Commit(setupEventHandlers(Cur, clients[client].id, ev))

\* client.logout() returns or throws: destroySession goes on to client.destroy()
LogoutReturns(d, ok) ==
    /\ d \in destroys
    /\ d.pc = "logout"
    /\ Commit(LogoutResult(Cur, d, ok))

\* client.destroy() returns or throws: destroySession purges and returns
DestroyReturns(d, ok, ctor) ==
    /\ d \in destroys
    /\ d.pc = "destroy"
    /\ Commit(Continue(DestroyResult([Cur EXCEPT !.ctor = ctor], d, ok), d.owner))

\* client.initialize() returns (ok) or throws
InitializeReturns(t, ok) ==
    /\ t \in inits
    /\ Commit(InitializeResult(Cur, t, ok))

SweepRunning == \E d \in destroys : d.owner.kind = "sweep"

\* the setInterval callback of startCleanupScheduler
CleanupTick ==
    /\ ~SweepRunning
    /\ Commit(cleanupInactiveSessions(Cur))

\* GET /labels/:userId, /groups/:userId, ... on a ready session
Touch(userId) ==
    /\ sessions[userId] # NoClient
    /\ getSessionStatus(Cur, userId) = "ready"
    /\ Commit(updateActivity(Cur, userId))

\* GET /session-status/:userId for an id with a client; client.getState() is
\* taken to settle at once
SessionStatus(userId, state) ==
    /\ sessions[userId] # NoClient
    /\ Commit(sessionStatusRoute(Cur, userId, state))

\* the request gets as far as reading its body
PassesLock(M, userId) ==
    /\ SessionReady(M, userId)
    /\ acquireLock(M.sessionLocks, userId).ret

\* POST /send-messages, answered before the body is looked at (not ready, busy)
SendRefused(userId) ==
    /\ ~PassesLock(Cur, userId)
    /\ Commit(sendMessages(Cur, userId, CHOOSE inp \in Inputs : TRUE))

\* POST /send-messages
SendMessages(userId, inp) ==
    /\ PassesLock(Cur, userId)
    /\ Accepted(Cur, userId, inp) => FreeSlot(Cur) # 0
    /\ Commit(sendMessages(Cur, userId, inp))

\* client.getNumberId() returns an id ("wid"), returns null ("none") or throws
ResolveReturns(s, res) ==
    /\ jobs[s].pc = "resolve"
    /\ Commit(ResolveResult(Cur, s, res))

\* client.sendMessage() returns or throws
SendReturns(s, ok) ==
    /\ jobs[s].pc = "send"
    /\ Commit(SendResult(Cur, s, ok))

\* the inter-message setTimeout fires
DelayReturns(s) ==
    /\ jobs[s].pc = "delay"
    /\ Commit(NextRecipient(Cur, s))

\* the clock advances
Tick ==
    /\ now < MaxTime
    /\ now' = now + 1
    /\ UNCHANGED <<config, regvars, clients, destroys, inits, sweep, jobs, norm>>

Next ==
    \/ \E u \in UserIds, ctor \in BOOLEAN : StartSession(u, ctor)
    \/ \E u \in UserIds : CloseSession(u)
    \/ \E c \in 1..MaxClients, ev \in Events : ClientEvent(c, ev)
    \/ \E d \in DestroyTasks, ok \in BOOLEAN : LogoutReturns(d, ok)
    \/ \E d \in DestroyTasks, ok, ctor \in BOOLEAN : DestroyReturns(d, ok, ctor)
    \/ \E t \in InitTasks, ok \in BOOLEAN : InitializeReturns(t, ok)
    \/ CleanupTick
    \/ \E u \in UserIds : Touch(u)
    \/ \E u \in UserIds, state \in ClientStates : SessionStatus(u, state)
    \/ \E u \in UserIds : SendRefused(u)
    \/ \E u \in UserIds, inp \in Inputs : SendMessages(u, inp)
    \/ \E s \in 1..MaxJobs, res \in {"wid", "none", "throw"} : ResolveReturns(s, res)
    \/ \E s \in 1..MaxJobs, ok \in BOOLEAN : SendReturns(s, ok)
    \/ \E s \in 1..MaxJobs : DelayReturns(s)
    \/ Tick

Spec == Init /\ [][Next]_vars

SpecRender == InitRender /\ [][Next]_vars

\* the loop body normalizes one raw recipient
Normalize ==
    /\ ~norm.done
    /\ norm' = [norm EXCEPT !.numberOnly = normalizeNumber(norm.originalNumber),
                            !.done = TRUE]
    /\ UNCHANGED <<config, now, regvars, clients, destroys, inits, sweep, jobs>>

\* the server as started, about to normalize any of the raw recipients
InitNormalize ==
    /\ InitWith(ConfigJs)
    /\ norm \in {[NoNumber EXCEPT !.originalNumber = r] : r \in RawNumbers}
SpecNormalize == InitNormalize /\ [][Normalize]_vars

\* ---------------------------------------------- per-recipient messages
MaxMessages == 3
\* the value of a field that was not sent, or of an index past the end
Undefined == "<undefined>"
Falsy == {"", Undefined}
\* a || b
Or(a, b) == IF a \in Falsy THEN b ELSE a
\* list[i] with the indices of the model, which start at 1
At(list, i) == IF i \in DOMAIN list THEN list[i] ELSE Undefined
Texts == {"", "a", "b"}
\* what JSON.parse(mensajesJson || '[]') gives: a syntax error ("invalid"), a
\* value that is no array ("other"), or an array
ParsedMessages ==
    [kind : {"invalid", "other"}, list : {<<>>}]
    \cup [kind : {"array"},
          list : UNION {[1..k -> Texts] : k \in 0..MaxMessages}]

\* a faulty variant of currentMessage: the fallback to the shared message is
\* missing
currentMessageNoShared(mensajesPorNumero, i, message) ==
    Or(At(mensajesPorNumero, i), "")

\* const currentMessage = mensajesPorNumero[i] || message || ""
currentMessage(mensajesPorNumero, i, message) ==
    Or(Or(At(mensajesPorNumero, i), message), "")

\* mensajesPorNumero after the try block that parses the body, for n
\* recipients; the JSON.parse of a text that is no JSON throws
normalizeMessages(n, parsed, message) ==
    IF parsed.kind = "invalid"
    THEN [rejected |-> TRUE, mensajesPorNumero |-> <<>>]
    ELSE LET filled == IF parsed.kind # "array"
                       THEN [i \in 1..n |-> Or(message, "")]
                       ELSE parsed.list
             padded == IF Len(filled) # n
                       THEN [i \in 1..n |-> Or(Or(At(filled, i), message), "")]
                       ELSE filled
         IN [rejected |-> FALSE, mensajesPorNumero |-> padded]

NoMessages ==
    [n |-> 0, parsed |-> [kind |-> "array", list |-> <<>>], message |-> Undefined,
     rejected |-> FALSE, current |-> <<>>, done |-> FALSE]

\* the request handler parses the per-recipient messages and the job picks
\* the message of each of the n recipients
NormalizeMessages ==
    /\ ~norm.done
    /\ LET r == normalizeMessages(norm.n, norm.parsed, norm.message) IN
       norm' = [norm EXCEPT
                  !.rejected = r.rejected,
                  !.current = IF r.rejected THEN <<>>
                              ELSE [i \in 1..norm.n |->
                                      currentMessage(r.mensajesPorNumero, i,
                                                     norm.message)],
                  !.done = TRUE]
    /\ UNCHANGED <<config, now, regvars, clients, destroys, inits, sweep, jobs>>

\* the server as started, about to read any per-recipient message list for
\* up to MaxRecipients recipients
InitMessages ==
    /\ InitWith(ConfigJs)
    /\ norm \in {[NoMessages EXCEPT !.n = n, !.parsed = p, !.message = msg] :
                    n \in 0..MaxRecipients, p \in ParsedMessages,
                    msg \in {Undefined, "", "s"}}
SpecMessages == InitMessages /\ [][NormalizeMessages]_vars

\* every call on the client and every timer of a dispatch job returns
JobStep(s) ==
    \/ \E res \in {"wid", "none", "throw"} : ResolveReturns(s, res)
    \/ \E ok \in BOOLEAN : SendReturns(s, ok)
    \/ DelayReturns(s)

JobFairness == \A s \in 1..MaxJobs : WF_vars(JobStep(s))

\* the events that decide whether a job can start and whether its session is
\* torn down
DispatchEvents == {"ready", "disconnected"}

\* the server as a dispatch job meets it: the clock stands still (every action
\* but Tick and those that only read or write times: Touch, SessionStatus and
\* CleanupTick),
\* new Client(...) succeeds, and the clients deliver the DispatchEvents
NextDispatch ==
    \/ \E u \in UserIds : StartSession(u, TRUE)
    \/ \E u \in UserIds : CloseSession(u)
    \/ \E c \in 1..MaxClients, ev \in DispatchEvents : ClientEvent(c, ev)
    \/ \E d \in DestroyTasks, ok \in BOOLEAN : LogoutReturns(d, ok)
    \/ \E d \in DestroyTasks, ok \in BOOLEAN : DestroyReturns(d, ok, TRUE)
    \/ \E t \in InitTasks, ok \in BOOLEAN : InitializeReturns(t, ok)
    \/ \E u \in UserIds : SendRefused(u)
    \/ \E u \in UserIds, inp \in Inputs : SendMessages(u, inp)
    \/ \E s \in 1..MaxJobs, res \in {"wid", "none", "throw"} : ResolveReturns(s, res)
    \/ \E s \in 1..MaxJobs, ok \in BOOLEAN : SendReturns(s, ok)
    \/ \E s \in 1..MaxJobs : DelayReturns(s)

FairSpec == Init /\ [][NextDispatch]_vars /\ JobFairness

\* the same server, with the requests whose media file cannot be read
NextMedia ==
    \/ NextDispatch
    \/ \E u \in UserIds, inp \in FailedMedia : SendMessages(u, inp)

SpecMedia == Init /\ [][NextMedia]_vars

\* ---------------------------------------------------------------- claims
JobActive(s) == jobs[s].pc # "idle"
Tracked(M, u) == M.sessions[u] # NoClient
NoRecord(M, u) ==
    /\ M.sessions[u] = NoClient
    /\ M.qrCodes[u] = NoQr
    /\ M.sessionStatus[u] = NoStatus
    /\ ~MapHas(M.lastActivity, u)
    /\ M.sessionLocks[u] = NoTime
SameRegistry(M, N) ==
    /\ M.sessions = N.sessions
    /\ M.qrCodes = N.qrCodes
    /\ M.sessionStatus = N.sessionStatus
    /\ M.lastActivity = N.lastActivity
    /\ M.sessionLocks = N.sessionLocks
\* the ids on which the step that gave M started destroySession
DestroyStarted(M) == {c[2] : c \in {x \in M.calls : x[1] = "destroySession"}}
\* the state M as the next handler finds it
Settled(M) == [M EXCEPT !.calls = {}, !.reply = NoReply]
ClientCalls(M) == {c \in M.calls : c[1] \in {"logout", "destroy"}}

\* C1: in every reachable state the session map holds at most maxSessions
\* entries.
C1_CapacityNeverExceeded == Size(sessions) <= config.maxSessions

\* C2: no two dispatch jobs are in flight for the same session id.
C2_OneJobPerSession ==
    \A s, t \in 1..MaxJobs :
        (s # t /\ JobActive(s) /\ JobActive(t)) => jobs[s].id # jobs[t].id

\* the responses of a request that is rejected after the lock was acquired
ValidationRejections == {"invalid_json", "no_content", "no_numbers"}

\* C3: a request that acquired the lock releases it: a validation rejection
\* releases it before it answers, and a background job releases it when it
\* ends, which it always does; so no lock is held forever.
C3_LockReleased ==
    /\ [](\A u \in UserIds, inp \in Inputs :
            (PassesLock(Cur, u) /\ ~Accepted(Cur, u, inp)) =>
                LET M == sendMessages(Cur, u, inp) IN
                /\ M.reply.code \in ValidationRejections
                /\ <<"acquireLock", u>> \in M.calls
                /\ M.sessionLocks[u] = NoTime)
    /\ \A s \in 1..MaxJobs : JobActive(s) ~> ~JobActive(s)
    /\ \A u \in UserIds : (sessionLocks[u] # NoTime) ~> (sessionLocks[u] = NoTime)

\* C3 witness: a job past its first recipient still holds the lock it acquired.
C3_Witness ==
    \E s \in 1..MaxJobs :
        jobs[s].pc = "delay" /\ sessionLocks[jobs[s].id] # NoTime

\* the tracked session with the smallest lastActivity, the first in the
\* iteration order of the map on ties
OldestTracked ==
    LET la == lastActivity
        i == CHOOSE i \in DOMAIN la :
                /\ Tracked(Cur, la[i][1])
                /\ \A j \in DOMAIN la :
                      Tracked(Cur, la[j][1]) =>
                          \/ la[i][2] < la[j][2]
                          \/ la[i][2] = la[j][2] /\ i <= j
    IN la[i][1]

\* C4: createSession for a new id while the map holds maxSessions entries
\* starts the destruction of exactly one session, the tracked session with the
\* smallest lastActivity.
C4_EvictsExactlyOldest ==
    \A u \in UserIds :
        (Size(sessions) >= config.maxSessions /\ ~Tracked(Cur, u)) =>
            DestroyStarted(createSession(Cur, u)) = {OldestTracked}

\* C5: createSession(id) on a session in a live status returns success and
\* leaves its handle and status alone, also when the map is full.
C5_CreateOnLiveIsIdempotent ==
    \A u \in UserIds :
        (Tracked(Cur, u) /\ sessionStatus[u] \in LiveStatuses
            /\ Size(sessions) <= config.maxSessions) =>
            LET M == createSession(Cur, u) IN
            /\ M.reply = Reply("createSession", u, "success", sessionStatus[u])
            /\ M.sessions[u] = sessions[u]
            /\ M.sessionStatus[u] = sessionStatus[u]
            /\ M.clients[sessions[u]] = clients[sessions[u]]

\* C6: a client handle is stored for an id exactly when a status is stored
\* for it.
C6_HandleIffStatus ==
    \A u \in UserIds : (sessions[u] # NoClient) <=> (sessionStatus[u] # NoStatus)

\* C7: destroySession is idempotent. On an id without any record it changes
\* nothing and calls no client; when it completes, no record of the id is left
\* and getSessionStatus gives no_session; a second call then changes nothing.
C7_DestroyIdempotent ==
    /\ \A u \in UserIds :
          NoRecord(Cur, u) =>
              LET M == destroySession(Cur, u, CloseOwner) IN
              /\ SameRegistry(M, Cur)
              /\ ClientCalls(M) = {}
              /\ M.clients = clients /\ M.destroys = destroys
    /\ \A u \in UserIds :
          sessions[u] = NoClient =>
              LET M == destroySession(Cur, u, CloseOwner) IN
              NoRecord(M, u) /\ ClientCalls(M) = {}
    /\ \A d \in destroys :
          d.pc = "destroy" =>
              LET M == destroyCompletes(Cur, d)
                  N == destroySession(Settled(M), d.id, CloseOwner)
              IN
              /\ NoRecord(M, d.id)
              /\ getSessionStatus(M, d.id) = "no_session"
              /\ SameRegistry(N, M)
              /\ ClientCalls(N) = {}
              /\ N.clients = M.clients /\ N.destroys = M.destroys

\* C7 witness: a client was destroyed and no record of its id is left.
C7_Witness ==
    \E c \in DOMAIN clients :
        clients[c].st = "destroyed" /\ NoRecord(Cur, clients[c].id)

\* C8: acquireLock(id) returns true and records a lock when none is held for
\* id, and returns false and changes nothing when one is held; releaseLock(id)
\* removes the lock and does nothing when none is held; no call touches the
\* lock of another id. So of two acquires in a row the second is refused, and
\* an acquire after a release is granted.
C8_LockSemantics ==
    \A u \in UserIds :
        LET a == acquireLock(sessionLocks, u)
            b == acquireLock(a.locks, u)
            r == releaseLock(a.locks, u)
        IN
        /\ a.ret <=> (sessionLocks[u] = NoTime)
        /\ a.locks[u] # NoTime
        /\ ~a.ret => a.locks = sessionLocks
        /\ \A v \in UserIds \ {u} : a.locks[v] = sessionLocks[v] /\ r[v] = sessionLocks[v]
        /\ ~b.ret /\ b.locks = a.locks
        /\ r[u] = NoTime
        /\ releaseLock(r, u) = r
        /\ acquireLock(r, u).ret

\* C8 witness: a lock is held and a further acquire for its id is refused.
C8_Witness ==
    \E u \in UserIds : sessionLocks[u] # NoTime /\ ~acquireLock(sessionLocks, u).ret

\* the session of u has a lastActivity older than t
IdleFor(u, t) == MapHas(lastActivity, u) /\ now - MapGet(lastActivity, u) > t

\* C9: a clean-up tick destroys every session that has been idle for longer
\* than the idle timeout: the tick purges it, is tearing it down, or has it on
\* its list.
C9_TickDestroysIdle ==
    \A u \in UserIds :
        (~SweepRunning /\ IdleFor(u, TimeoutEnv)) =>
            LET M == cleanupInactiveSessions(Cur) IN
            \/ NoRecord(M, u)
            \/ \E d \in M.destroys : d.id = u /\ d.owner = SweepOwner
            \/ \E i \in DOMAIN M.sweep : M.sweep[i] = u

\* C10: a clean-up tick destroys only idle sessions: whenever the tick starts
\* destroySession on a session, at its start or after the teardown of another
\* session returned, that session's lastActivity is older than the timeout.
C10_TickDestroysOnlyIdle ==
    /\ ~SweepRunning =>
          \A u \in DestroyStarted(cleanupInactiveSessions(Cur)) :
              IdleFor(u, config.timeoutMinutes)
    /\ \A d \in destroys :
          (d.pc = "destroy" /\ d.owner = SweepOwner) =>
              \A u \in DestroyStarted(Continue(destroyCompletes(Cur, d), d.owner)) :
                  MapHas(destroyCompletes(Cur, d).lastActivity, u) =>
                      IdleFor(u, config.timeoutMinutes)

\* the "completed" log lines written in the step that gave M
Report(M) == {c \in M.calls : c[1] = "completed"}
\* the recipients of job s whose turn of the loop is over
Processed(s) ==
    IF jobs[s].pc \in {"resolve", "send"} THEN jobs[s].i - 1 ELSE jobs[s].i
\* the job after the outcome of recipient i was counted: it goes on to the
\* delay before recipient i + 1, or it completes and reports the counters
GoesOn(M, s, sent, failed, list) ==
    LET j == jobs[s] IN
    IF j.i < Len(j.numbers)
    THEN M.jobs[s] = [j EXCEPT !.pc = "delay", !.enviados = sent,
                               !.fallidos = failed, !.failedNumbers = list]
    ELSE /\ M.jobs[s] = IdleJob
         /\ Report(M) = {<<"completed", j.id, sent, failed, Len(j.numbers), list>>}
         /\ sent + failed = Len(j.numbers)
         /\ failed = Len(list)

\* C11: a resolution miss or a resolve/send error for one recipient never
\* stops the job. Each turn of the loop makes one getNumberId call for the
\* next recipient; a miss appends the recipient with the reason "Not a valid
\* WhatsApp number", an error appends it with the error message, a sent
\* message counts as sent; enviados + fallidos is the number of recipients
\* processed, fallidos the length of failedNumbers, whose entries are in input
\* order; on completion the counters add up to the number of recipients.
C11_DispatchOutcomes ==
    \A s \in 1..MaxJobs :
        LET j == jobs[s] IN
        JobActive(s) =>
            /\ j.enviados + j.fallidos = Processed(s)
            /\ j.fallidos = Len(j.failedNumbers)
            /\ \A k \in DOMAIN j.failedNumbers :
                  /\ j.failedNumbers[k][1] \in 1..Processed(s)
                  /\ k > 1 => j.failedNumbers[k - 1][1] < j.failedNumbers[k][1]
            /\ j.pc = "resolve" =>
                  /\ ResolveResult(Cur, s, "wid").jobs[s] = [j EXCEPT !.pc = "send"]
                  /\ GoesOn(ResolveResult(Cur, s, "none"), s, j.enviados, j.fallidos + 1,
                            Append(j.failedNumbers,
                                   <<j.i, "Not a valid WhatsApp number">>))
                  /\ GoesOn(ResolveResult(Cur, s, "throw"), s, j.enviados, j.fallidos + 1,
                            Append(j.failedNumbers, <<j.i, "err.message">>))
            /\ j.pc = "send" =>
                  /\ GoesOn(SendResult(Cur, s, TRUE), s, j.enviados + 1, j.fallidos,
                            j.failedNumbers)
                  /\ GoesOn(SendResult(Cur, s, FALSE), s, j.enviados, j.fallidos + 1,
                            Append(j.failedNumbers, <<j.i, "err.message">>))
            /\ (j.pc = "delay" /\ j.numbers[j.i + 1] = "str") =>
                  LET M == NextRecipient(Cur, s) IN
                  /\ M.jobs[s] = [j EXCEPT !.pc = "resolve", !.i = j.i + 1]
                  /\ M.calls = {<<"getNumberId", j.client>>}

\* C11 witness: the first recipient of a job failed and the job goes on to
\* the second.
C11_Witness ==
    \E s \in 1..MaxJobs :
        jobs[s].pc = "delay" /\ jobs[s].fallidos = 1 /\ jobs[s].enviados = 0

\* the status changes of the session life cycle
StatusEdges ==
    {<<"initializing", "needs_scan">>, <<"initializing", "authenticated">>,
     <<"initializing", "auth_failure">>, <<"needs_scan", "authenticated">>,
     <<"needs_scan", "auth_failure">>, <<"authenticated", "ready">>,
     <<"authenticated", "disconnected">>, <<"ready", "disconnected">>}

\* C12: whatever event a client delivers next, the stored status of its
\* session changes only along an edge of the life cycle.
C12_StatusFollowsEdges ==
    \A c \in DOMAIN clients, ev \in Events :
        clients[c].st \in {"live", "closing"} =>
            LET u == clients[c].id
                M == setupEventHandlers(Cur, u, ev)
            IN
            (sessionStatus[u] # NoStatus
                /\ M.sessionStatus[u] \notin {NoStatus, sessionStatus[u]}) =>
                <<sessionStatus[u], M.sessionStatus[u]>> \in StatusEdges

\* the statuses whose handlers start destroySession
TeardownStatuses == {"auth_failure", "disconnected"}
\* a destroySession started by an event handler for u has not finished
EventTeardown(D, u) == \E d \in D : d.id = u /\ d.owner = EventOwner

\* C13: when the status of a session becomes auth_failure or disconnected,
\* destroySession is started for it in the same step, and the status stays
\* stored as long as that teardown has not finished.
C13_TeardownKeepsStatus ==
    [][\A u \in UserIds :
          /\ (sessionStatus'[u] \in TeardownStatuses
                /\ sessionStatus'[u] # sessionStatus[u]) => EventTeardown(destroys', u)
          /\ (sessionStatus[u] \in TeardownStatuses
                /\ EventTeardown(destroys, u) /\ EventTeardown(destroys', u)) =>
                    sessionStatus'[u] = sessionStatus[u]]_vars

\* the failure result of createSession(u)
InitError(u) == Reply("createSession", u, "failure", "init_error")
\* createSession(u) is suspended in the destroySession of its catch block
FailTeardown(D, u) == \E d \in D : d.id = u /\ d.owner = CreateOwner(u, "fail")
\* the catch block of createSession(u) gave M: it returned the failure result
\* and left no record of u, or it is still waiting for its destroySession
FailsCleanly(M, u) ==
    \/ M.reply = InitError(u) /\ NoRecord(M, u)
    \/ M.reply = NoReply /\ FailTeardown(M.destroys, u)

\* C14: when new Client(...) or client.initialize() throws in createSession(id),
\* the call returns the failure result with status init_error, not an
\* exception, and when it returns no session, status, QR, activity or lock
\* record of id exists.
C14_SetupFailure ==
    /\ \A t \in inits : FailsCleanly(InitializeResult(Cur, t, FALSE), t.id)
    /\ \A u \in UserIds : FailsCleanly(CreateNew([Cur EXCEPT !.ctor = FALSE], u), u)
    /\ \A d \in destroys :
          (d.pc = "destroy" /\ d.owner = CreateOwner(d.id, "fail")) =>
              LET M == Continue(destroyCompletes(Cur, d), d.owner) IN
              M.reply = InitError(d.id) /\ NoRecord(M, d.id)

\* C14 witness: initialize() threw and createSession waits for the teardown of
\* its catch block.
C14_Witness ==
    \E d \in destroys : d.pc = "destroy" /\ d.owner = CreateOwner(d.id, "fail")

\* a job slot is there for the request inp if it is accepted
Servable(u, inp) == Accepted(Cur, u, inp) => FreeSlot(Cur) # 0

\* C15: a send-messages request for a ready session whose lock is held gets
\* the busy response and changes nothing: the five maps, the lock token of
\* the running job, the jobs and the clients are as before, and no dispatch
\* call is made.
C15_BusyChangesNothing ==
    \A u \in UserIds, inp \in Inputs :
        (SessionReady(Cur, u) /\ sessionLocks[u] # NoTime) =>
            LET M == sendMessages(Cur, u, inp) IN
            /\ M.reply = Reply("send-messages", u, "busy", "")
            /\ SameRegistry(M, Cur)
            /\ M.jobs = jobs /\ M.clients = clients
            /\ DispatchCalls(M) = {}

\* C15 witness: a job of a ready session holds the lock, acquired earlier.
C15_Witness ==
    \E s \in 1..MaxJobs :
        /\ JobActive(s) /\ SessionReady(Cur, jobs[s].id)
        /\ sessionLocks[jobs[s].id] # NoTime /\ sessionLocks[jobs[s].id] < now

\* the response to a body that fails validation
Rejection(inp) ==
    IF inp.json # "array" THEN "invalid_json"
    ELSE IF ~inp.message /\ ~inp.media THEN "no_content"
    ELSE "no_numbers"

\* C16: a request whose body fails validation (the recipients are no list,
\* neither message nor media, or no recipient) is rejected without any
\* getNumberId or sendMessage call and without a job, and after the rejection
\* no lock is held for the session.
C16_RejectedBeforeSend ==
    \A u \in UserIds, inp \in Inputs :
        (PassesLock(Cur, u) /\ ~Accepted(Cur, u, inp)) =>
            LET M == sendMessages(Cur, u, inp) IN
            /\ M.reply = Reply("send-messages", u, Rejection(inp), "")
            /\ DispatchCalls(M) = {}
            /\ M.jobs = jobs
            /\ M.sessionLocks[u] = NoTime

\* C16 witness: a ready session with a free lock gets a request without
\* recipients and rejects it.
C16_Witness ==
    \E u \in UserIds, inp \in Inputs :
        /\ PassesLock(Cur, u) /\ inp.json = "array" /\ inp.message /\ inp.numbers = <<>>
        /\ sendMessages(Cur, u, inp).reply.code = "no_numbers"

\* slot s holds the same job before and after the step
SameJob(s) ==
    /\ JobActive(s) /\ jobs'[s].pc # "idle"
    /\ jobs'[s].id = jobs[s].id /\ jobs'[s].numbers = jobs[s].numbers

\* C17: a job takes its recipients in input order, one at a time. Its index
\* never goes back or skips; it moves to recipient i + 1 only from the delay
\* that follows recipient i, that is after the resolve and send calls for i
\* returned or failed, and that step makes the one resolve call for i + 1; a
\* send call follows the resolve call of the same recipient; and the job waits
\* for at most one client call at a time.
C17_InOrderOneAtATime ==
    [][\A s \in 1..MaxJobs :
          SameJob(s) =>
              /\ jobs'[s].i \in {jobs[s].i, jobs[s].i + 1}
              /\ jobs'[s].i = jobs[s].i + 1 <=>
                    (jobs[s].pc = "delay" /\ jobs'[s].pc = "resolve")
              /\ (jobs'[s].pc = "send" /\ jobs[s].pc # "send") => jobs[s].pc = "resolve"
              /\ (jobs'[s].pc = "resolve" /\ jobs[s].pc # "resolve") => jobs[s].pc = "delay"
              /\ jobs'[s].pc \in {"resolve", "send", "delay"}]_vars

\* C17 witness: a job waits for the resolve call of its second recipient.
C17_Witness ==
    \E s \in 1..MaxJobs : jobs[s].pc = "resolve" /\ jobs[s].i = 2

\* C18: a request that passes validation is acknowledged with the number of
\* its recipients before the job makes its first getNumberId or sendMessage
\* call, in the step of the request itself and whatever the recipients are;
\* every request is answered in its own step.
C18_AcknowledgedFirst ==
    \A u \in UserIds, inp \in Inputs :
        Servable(u, inp) =>
            LET M == sendMessages(Cur, u, inp) IN
            /\ M.reply # NoReply
            /\ (PassesLock(Cur, u) /\ Accepted(Cur, u, inp)) =>
                  /\ M.reply.code = "accepted"
                  /\ M.reply.total = Len(inp.numbers)
                  /\ M.reply.before = {}

\* C18 witness: an acknowledged job waits for its first resolve call.
C18_Witness ==
    \E s \in 1..MaxJobs : jobs[s].pc = "resolve" /\ jobs[s].i = 1 /\ jobs[s].enviados = 0

\* C20: a request acquires the lock and starts a job only if the id has a
\* client in the session map and the stored status ready; any other request
\* is rejected as not ready, with the lock table, the other maps and the jobs
\* unchanged and without any call.
C20_OnlyReadySessionsDispatch ==
    \A u \in UserIds, inp \in Inputs :
        Servable(u, inp) =>
            LET M == sendMessages(Cur, u, inp) IN
            /\ (sessions[u] = NoClient \/ sessionStatus[u] # "ready") =>
                  /\ M.reply = Reply("send-messages", u, "not_ready",
                                     getSessionStatus(Cur, u))
                  /\ SameRegistry(M, Cur)
                  /\ M.jobs = jobs
                  /\ M.calls = {}
            /\ (<<"acquireLock", u>> \in M.calls \/ M.jobs # jobs
                    \/ M.sessionLocks # sessionLocks) =>
                  (sessions[u] # NoClient /\ sessionStatus[u] = "ready")

\* C20 witness: a session with a client that is not ready refuses a request.
C20_Witness ==
    \E u \in UserIds :
        /\ sessions[u] # NoClient /\ sessionStatus[u] = "needs_scan"
        /\ sendMessages(Cur, u, CHOOSE inp \in Inputs : TRUE).reply.code = "not_ready"

\* C19: the normalized recipient is the digits of the raw one, with the
\* prefix 591 in front exactly when the raw one has no "+", has exactly 8
\* digits and these do not start with 591; a raw recipient with a "+" gives
\* its digits and no prefix, whatever its length.
C19_Normalization ==
    norm.done =>
        LET raw == norm.originalNumber
            out == norm.numberOnly
            d == Digits(raw)
            prefixed == /\ \A i \in DOMAIN raw : raw[i] # "+"
                        /\ Len(d) = 8
                        /\ <<d[1], d[2], d[3]>> # <<"5", "9", "1">>
        IN
        /\ prefixed => out = <<"5", "9", "1">> \o d
        /\ ~prefixed => out = d
        /\ (\E i \in DOMAIN raw : raw[i] = "+") => out = d

\* C19 witness: an 8-digit recipient without "+" got the prefix.
C19_Witness ==
    /\ norm.done /\ Len(norm.numberOnly) = 11
    /\ Len(norm.originalNumber) > Len(Digits(norm.originalNumber))

\* the client call destroySession starts with on a session in status st
FirstCall(st) == IF st \in {"ready", "authenticated"} THEN "logout" ELSE "destroy"

\* C21: destroySession on a tracked session calls logout() on the handle
\* exactly when the stored status is ready or authenticated, then destroy(),
\* and then purges the handle, status, QR, activity and lock, whether the two
\* calls return or throw; an error is logged and the caller gets the same
\* result.
C21_TeardownAlwaysPurges ==
    /\ \A u \in UserIds :
          Tracked(Cur, u) =>
              LET M == destroySession(Cur, u, CloseOwner)
                  first == FirstCall(sessionStatus[u])
              IN
              /\ ClientCalls(M) = {<<first, sessions[u]>>}
              /\ [id |-> u, client |-> sessions[u], pc |-> first,
                  owner |-> CloseOwner] \in M.destroys
              /\ M.reply = NoReply
    /\ \A d \in destroys, ok \in BOOLEAN :
          d.pc = "logout" =>
              LET M == LogoutResult(Cur, d, ok) IN
              /\ ClientCalls(M) = {<<"destroy", d.client>>}
              /\ [d EXCEPT !.pc = "destroy"] \in M.destroys
              /\ SameRegistry(M, Cur)
    /\ \A d \in destroys, ok \in BOOLEAN :
          d.pc = "destroy" =>
              LET M == DestroyResult(Cur, d, ok)
                  R == Continue(M, d.owner)
              IN
              /\ NoRecord(M, d.id)
              /\ d \notin M.destroys
              /\ d.owner = CloseOwner =>
                    R.reply = Reply("close-session", "", "success", "no_session")
              /\ Settled(R) = Settled(Continue(DestroyResult(Cur, d, TRUE), d.owner))
              /\ R.reply = Continue(DestroyResult(Cur, d, TRUE), d.owner).reply

\* C21 witness: the teardown of a session that was ready or authenticated is
\* past logout() and waits for destroy().
C21_Witness ==
    \E d \in destroys :
        /\ d.pc = "destroy" /\ d.owner = CloseOwner
        /\ [d EXCEPT !.pc = "logout"] \notin destroys
        /\ sessionStatus[d.id] \in {"ready", "authenticated"}
        /\ sessions[d.id] = d.client

\* C22: getOldestSession returns no id only when no session is tracked: with
\* at least one tracked session it returns the id of a tracked session, also
\* when every lastActivity equals the current time.
C22_OldestOfTracked ==
    /\ (\A u \in UserIds : ~Tracked(Cur, u)) <=> (getOldestSession(Cur) = Null)
    /\ (\E u \in UserIds : Tracked(Cur, u)) =>
          getOldestSession(Cur) \in {u \in UserIds : Tracked(Cur, u)}

\* the inter-message delays started in the step that gave M
Delays(M) == {c \in M.calls : c[1] = "setTimeout"}

\* the job after the outcome of a recipient it resolved or sent to
Outcomes(s) ==
    CASE jobs[s].pc = "resolve" ->
            {ResolveResult(Cur, s, "none"), ResolveResult(Cur, s, "throw")}
      [] jobs[s].pc = "send" -> {SendResult(Cur, s, TRUE), SendResult(Cur, s, FALSE)}
      [] OTHER -> {}

\* C23: a dispatch job waits for the inter-message delay once after each
\* recipient but the last, whether the recipient was sent to or failed, and
\* nowhere else: after the last recipient it ends and releases the lock in the
\* same step. Since each delay is followed by the next recipient, a job that
\* goes through its n recipients waits n - 1 times.
C23_DelayBetweenRecipients ==
    /\ \A s \in 1..MaxJobs :
          LET j == jobs[s] IN
          JobActive(s) =>
              /\ j.pc = "delay" => j.i < Len(j.numbers)
              /\ \A M \in Outcomes(s) :
                    IF j.i < Len(j.numbers)
                    THEN /\ Delays(M) = {<<"setTimeout", j.id>>}
                         /\ M.jobs[s].pc = "delay" /\ M.jobs[s].i = j.i
                         /\ M.sessionLocks = sessionLocks
                    ELSE /\ Delays(M) = {}
                         /\ M.jobs[s] = IdleJob
                         /\ <<"releaseLock", j.id>> \in M.calls
                         /\ M.sessionLocks[j.id] = NoTime
              /\ j.pc = "resolve" => Delays(ResolveResult(Cur, s, "wid")) = {}
              /\ (j.pc = "delay" /\ j.numbers[j.i + 1] = "str") =>
                    LET M == NextRecipient(Cur, s) IN
                    /\ Delays(M) = {}
                    /\ M.jobs[s].pc = "resolve" /\ M.jobs[s].i = j.i + 1
    /\ \A u \in UserIds, inp \in Inputs :
          Servable(u, inp) => Delays(sendMessages(Cur, u, inp)) = {}

\* C23 witness: a job of two recipients is at its last recipient, after the
\* one delay it waited for.
C23_Witness ==
    \E s \in 1..MaxJobs :
        /\ jobs[s].pc \in {"resolve", "send"}
        /\ jobs[s].i = 2 /\ Len(jobs[s].numbers) = 2

\* C24: whatever the length of the per-recipient message list, the message
\* used for recipient i is entry i of the list when there is one and it is
\* not empty, and the shared message otherwise (the empty text without one);
\* a list of another length than the recipients is not rejected.
C24_MessagePerRecipient ==
    (norm.done /\ norm.parsed.kind # "invalid") =>
        LET list == norm.parsed.list
            shared == IF norm.message = Undefined THEN "" ELSE norm.message
        IN
        /\ ~norm.rejected
        /\ Len(norm.current) = norm.n
        /\ \A i \in 1..norm.n :
              norm.current[i] = IF i <= Len(list) /\ list[i] # ""
                                THEN list[i] ELSE shared

\* C24 witness: a list shorter than the recipients with an empty entry: the
\* first recipient has its own message, the others the shared one.
C24_Witness ==
    /\ norm.done /\ norm.n = 2 /\ norm.parsed.kind = "array"
    /\ Len(norm.parsed.list) = 1 /\ norm.message = "s"
    /\ norm.current = <<"a", "s">>

\* the step that gave M set the lastActivity of u to the current time
Touched(M, u) == MapHas(M.lastActivity, u) /\ MapGet(M.lastActivity, u) = now

StatusQueryTouches ==
    \A u \in UserIds, state \in ClientStates :
        Tracked(Cur, u) => Touched(sessionStatusRoute(Cur, u, state), u)
QrQueryTouches ==
    \A u \in UserIds : Tracked(Cur, u) => Touched(getQrRoute(Cur, u), u)
CreateOnLiveTouches ==
    \A u \in UserIds :
        (Tracked(Cur, u) /\ sessionStatus[u] \in LiveStatuses) =>
            Touched(createSession(Cur, u), u)
ListQueryTouches ==
    \A u \in UserIds :
        (Tracked(Cur, u) /\ getSessionStatus(Cur, u) = "ready") =>
            Touched(updateActivity(Cur, u), u)
RecipientTouches ==
    \A s \in 1..MaxJobs :
        LET u == jobs[s].id IN
        (JobActive(s) /\ Tracked(Cur, u)) =>
            /\ \A M \in Outcomes(s) : Touched(M, u)
            /\ (jobs[s].pc = "delay" /\ jobs[s].numbers[jobs[s].i + 1] = "str") =>
                  Touched(NextRecipient(Cur, s), u)

\* C25: every interaction with a tracked session sets its lastActivity to the
\* current time: a status query, a QR query, createSession on an id that is
\* tracked in a live status, a list or report query, and each recipient a
\* dispatch job processes.
C25_EveryInteractionTouches ==
    /\ StatusQueryTouches
    /\ QrQueryTouches
    /\ CreateOnLiveTouches
    /\ ListQueryTouches
    /\ RecipientTouches

\* the status an event of a client stores
EventStatus(ev) == IF ev = "qr" THEN "needs_scan" ELSE ev

\* C26: every status transition made by an event of a client sets the
\* lastActivity of the session to the time of the transition: into needs_scan,
\* authenticated and ready, and also into auth_failure and disconnected.
C26_TransitionTouches ==
    \A c \in DOMAIN clients, ev \in Events :
        clients[c].st \in {"live", "closing"} =>
            LET u == clients[c].id
                M == setupEventHandlers(Cur, u, ev)
            IN
            M.sessionStatus[u] = EventStatus(ev) => Touched(M, u)

\* the ids on the list of the running sweep
Listed(M) == {M.sweep[i] : i \in DOMAIN M.sweep}

\* C27: a failure while a clean-up tick tears down one idle session does not
\* stop the tick: whether logout() and destroy() return or throw, the session
\* is purged, the tick goes on to destroySession of the next session on its
\* list, and every other session of the list stays on it.
C27_SweepSurvivesFailure ==
    /\ \A d \in destroys, ok \in BOOLEAN :
          (d.owner = SweepOwner /\ d.pc = "logout") =>
              LET M == LogoutResult(Cur, d, ok) IN
              /\ [d EXCEPT !.pc = "destroy"] \in M.destroys
              /\ M.sweep = sweep
    /\ \A d \in destroys, ok \in BOOLEAN :
          (d.owner = SweepOwner /\ d.pc = "destroy") =>
              LET M == Continue(DestroyResult(Cur, d, ok), d.owner) IN
              /\ NoRecord(DestroyResult(Cur, d, ok), d.id)
              /\ sweep # <<>> => Head(sweep) \in DestroyStarted(M)
              /\ Listed(Cur) = DestroyStarted(M) \cup Listed(M)
              /\ \A u \in DestroyStarted(M) :
                    \/ NoRecord(M, u)
                    \/ \E t \in M.destroys : t.id = u /\ t.owner = SweepOwner

\* C27 witness: a tick is tearing down one idle session and has another on its
\* list.
C27_Witness ==
    \E d \in destroys : d.owner = SweepOwner /\ d.pc = "destroy" /\ sweep # <<>>

\* the records of b are in M what they are now
SameRecordsOf(M, b) ==
    /\ M.sessions[b] = sessions[b]
    /\ M.sessionStatus[b] = sessionStatus[b]
    /\ M.qrCodes[b] = qrCodes[b]
    /\ M.sessionLocks[b] = sessionLocks[b]
    /\ MapHas(M.lastActivity, b) <=> MapHas(lastActivity, b)
    /\ MapHas(lastActivity, b) => MapGet(M.lastActivity, b) = MapGet(lastActivity, b)
    /\ Tracked(Cur, b) => M.clients[sessions[b]] = clients[sessions[b]]

DestroyNotCalled(c) ==
    /\ clients[c].st # "destroyed"
    /\ \A d \in destroys : d.client = c => d.pc = "logout"

\* C29: every client that createSession constructed and on which destroy()
\* was not called is the handle stored in the session map under its id, in
\* every interleaving; so a destroySession(id) whose teardown is pending when
\* createSession(id) makes the session again does not remove the records of
\* the new session.
C29_NoUntrackedLiveHandle ==
    /\ \A c \in DOMAIN clients :
          DestroyNotCalled(c) => sessions[clients[c].id] = c
    /\ \A d \in destroys, ok \in BOOLEAN :
          (d.pc = "destroy" /\ sessions[d.id] # d.client) =>
              SameRecordsOf(DestroyResult(Cur, d, ok), d.id)

\* C30: createSession(id) for an id that is tracked in a live status destroys
\* no session: it starts no destroySession, and every other tracked session
\* keeps its handle, status, lastActivity and lock, also when the registry
\* holds maxSessions entries.
C30_CreateOnLiveDestroysNothing ==
    \A u \in UserIds :
        (Tracked(Cur, u) /\ sessionStatus[u] \in LiveStatuses) =>
            LET M == createSession(Cur, u) IN
            /\ DestroyStarted(M) = {}
            /\ ClientCalls(M) = {}
            /\ \A v \in UserIds \ {u} : SameRecordsOf(M, v)

\* C31: in every reachable state an id with a lock token has a client handle
\* in the session map: the lock is acquired only for a session that is there,
\* and the purge of a session removes its lock with its handle.
C31_LockImpliesSession ==
    /\ \A u \in UserIds : sessionLocks[u] # NoTime => Tracked(Cur, u)
    /\ \A u \in UserIds :
          PassesLock(Cur, u) =>
              \A inp \in Inputs :
                  Servable(u, inp) =>
                      LET M == sendMessages(Cur, u, inp) IN
                      M.sessionLocks[u] # NoTime => Tracked(M, u)
    /\ \A d \in destroys, ok \in BOOLEAN :
          d.pc = "destroy" =>
              LET M == DestroyResult(Cur, d, ok) IN
              M.sessionLocks[d.id] = NoTime /\ ~Tracked(M, d.id)

\* C31 witness: a session was purged while its dispatch job was in flight:
\* the job goes on, and the lock it acquired went with the session.
C31_Witness ==
    \E s \in 1..MaxJobs :
        /\ JobActive(s)
        /\ ~Tracked(Cur, jobs[s].id)
        /\ sessionLocks[jobs[s].id] = NoTime

\* enviados of job s after the step that gave M: the counter, or what the
\* "completed" line reports when the job ended in the step
SentAfter(M, s) ==
    IF Report(M) = {} THEN M.jobs[s].enviados
    ELSE (CHOOSE c \in Report(M) : TRUE)[3]

\* C32: enviados counts the recipients for which a send call was made on the
\* client and returned without error: it grows by one when sendMessage
\* returns, and not when it throws, when the recipient does not resolve, or
\* when the recipient resolves and no send call is made for it (media is null
\* and the message is empty).
C32_SentCountsSends ==
    \A s \in 1..MaxJobs :
        LET j == jobs[s] IN
        /\ j.pc = "send" =>
              /\ SentAfter(SendResult(Cur, s, TRUE), s) = j.enviados + 1
              /\ SentAfter(SendResult(Cur, s, FALSE), s) = j.enviados
        /\ j.pc = "resolve" =>
              /\ SentAfter(ResolveResult(Cur, s, "none"), s) = j.enviados
              /\ SentAfter(ResolveResult(Cur, s, "throw"), s) = j.enviados
              /\ LET M == ResolveResult(Cur, s, "wid") IN
                 /\ SentAfter(M, s) = j.enviados
                 /\ j.content <=> <<"sendMessage", j.client>> \in M.calls

\* C33: once destroy() was called on the client of a session, a dispatch job
\* that is still in flight for the session makes no further getNumberId or
\* sendMessage call on that client.
C33_NoCallsAfterDestroy ==
    \A s \in 1..MaxJobs :
        LET j == jobs[s] IN
        (JobActive(s) /\ ~DestroyNotCalled(j.client)) =>
            /\ j.pc = "resolve" => DispatchCalls(ResolveResult(Cur, s, "wid")) = {}
            /\ j.pc = "send" =>
                  \A ok \in BOOLEAN : DispatchCalls(SendResult(Cur, s, ok)) = {}
            /\ (j.pc = "delay" /\ j.numbers[j.i + 1] = "str") =>
                  DispatchCalls(NextRecipient(Cur, s)) = {}

====
